---------------------------- MODULE Spec2Model ----------------------------
(***************************************************************************)
(* Calendarr: the persisted variant (events.db + /events.json) of the      *)
(* calendar aggregator.  The model follows the server script: the retrying *)
(* fetch, the normalisation of a feed, the match-or-insert reconciliation  *)
(* against the events table, the startup pass and the interval crawler,    *)
(* and the cached range query.  The variant without the table (index.js:  *)
(* the two feed routes over fetchWithCache) follows at the end.            *)
(*                                                                         *)
(* Time is abstract: a timer or a TTL that runs out is an action of its    *)
(* own (DelayElapses, IntervalFires, TtlElapses).  sqlite3 runs every      *)
(* statement on its own, atomically, some time after it was queued; a      *)
(* statement that is queued stays outstanding until its action fires.  The *)
(* runs of one prepared statement keep the order of their calls; other     *)
(* statements run in any order.  The SELECT of a db.get is placed at its   *)
(* callback: the callback touches nothing but its own pass, so the table   *)
(* sees the same statements in the same orders.                            *)
(***************************************************************************)
EXTENDS Integers, Sequences, FiniteSets, TLC

VARIABLES
  db,        \* the events table: the sequence of its rows, row i has id i
  passes,    \* the calls of fetchAndStoreEvents, in the order they were made
  startup,   \* the startup task: where it is, and the pass it awaits
  latest,    \* identity key -> colours the last fetched feed with it gives it
  cache,     \* the NodeCache: key -> [v, expired]
  requests,  \* the requests to /events.json, in the order they arrived
  window,    \* cache key -> how many entries of it ran out of TTL
  crashed,   \* an error escaped to the process
  budget     \* what is left to explore of each unbounded input

vars == <<db, passes, startup, latest, cache, requests, window, crashed, budget>>

\* ------------------------------------------------------------------ bounds
\* interval firings of the crawler
MaxTicks == 1
\* upstream attempts that fail, over all passes
MaxFailures == 3
\* events handed to the reconciler, over all passes
MaxIngested == 4
\* storage statements that fail (db.get or db.all answering err)
MaxDbErrors == 1
\* requests to GET /events.json
MaxRequests == 2
\* cache entries that run out of TTL
MaxExpiries == 1

\* ------------------------------------------------------------------ strings
\* A string is a sequence of characters; SQLite compares TEXT bytewise.
CharCode == ("0" :> 48) @@ ("1" :> 49) @@ ("9" :> 57) @@ ("_" :> 95)

RECURSIVE StrLess(_, _)
StrLess(s, t) ==
  IF t = <<>> THEN FALSE
  ELSE IF s = <<>> THEN TRUE
  ELSE IF CharCode[Head(s)] # CharCode[Head(t)]
       THEN CharCode[Head(s)] < CharCode[Head(t)]
       ELSE StrLess(Tail(s), Tail(t))

StrLeq(s, t) == s = t \/ StrLess(s, t)

Digit(n) == IF n = 0 THEN "0" ELSE IF n = 1 THEN "1" ELSE "9"

\* ------------------------------------------------------------------ feeds
\* A value that may be absent is a sequence of at most one element.
NoValue == <<>>
Some(v) == <<v>>

\* a document: one that ICAL.parse rejects, or a calendar with its vevents
Malformed == [wellformed |-> FALSE, vevents |-> <<>>]
Calendar(vevents) == [wellformed |-> TRUE, vevents |-> vevents]

\* the hour of an ICAL.Time; toString pads it to two digits
TimeToString(t) == <<Digit(t \div 10), Digit(t % 10)>>

VEvent(summary, dtstart, dtend, status, description, location) ==
  [summary |-> summary, dtstart |-> dtstart, dtend |-> dtend,
   status |-> status, description |-> description, location |-> location]

\* The vevents of the feeds that are explored: one entry as the upstream
\* shows it before and after it is confirmed (with a description and a
\* location by then), an entry without STATUS at another time, and an entry
\* without DTSTART.
TentativeA == VEvent(<<"a">>, Some(9), Some(10), Some("TENTATIVE"), NoValue, NoValue)
ConfirmedA == VEvent(<<"a">>, Some(9), Some(10), Some("CONFIRMED"), Some("d"), Some("l"))
PlainB == VEvent(<<"b">>, Some(10), Some(10), NoValue, NoValue, NoValue)
NoStartB == VEvent(<<"b">>, NoValue, Some(10), Some("CONFIRMED"), NoValue, NoValue)

\* the calendars of up to two vevents out of V
CalendarsOver(V) ==
  {Calendar(<<>>)} \cup {Calendar(<<v>>) : v \in V}
    \cup {Calendar(<<v, w>>) : v, w \in V}

\* --------------------------------------------------------- normalisation
Color(status) == IF status = Some("CONFIRMED") THEN "green" ELSE "red"

OrEmpty(v) == IF v = NoValue THEN "" ELSE v[1]

\* event.startDate is null without DTSTART, and .toString() on it throws
NormalizeThrows(vevent) == vevent.dtstart = NoValue

\* The same as NormalizeEvent, with the summary alone as the title.
NormalizeEventUntagged(vevent, prefix) ==
  [title |-> vevent.summary,
   start |-> TimeToString(vevent.dtstart[1]),
   end |-> TimeToString(vevent.dtend[1]),
   color |-> Color(vevent.status),
   description |-> OrEmpty(vevent.description),
   location |-> OrEmpty(vevent.location)]

NormalizeEvent(vevent, prefix) ==
  [title |-> <<"[", prefix, "] ">> \o vevent.summary,
   start |-> TimeToString(vevent.dtstart[1]),
   end |-> TimeToString(vevent.dtend[1]),
   color |-> Color(vevent.status),
   description |-> OrEmpty(vevent.description),
   location |-> OrEmpty(vevent.location)]

\* The same as MapEvents, but handing on the events before the one that
\* throws, as a reconciler that consumes the feed as a stream would.
MapEventsStreaming(icsData, prefix) ==
  LET vevents == icsData.vevents
      bad == {i \in 1..Len(vevents) : NormalizeThrows(vevents[i])}
      n == IF bad = {} THEN Len(vevents)
           ELSE (CHOOSE i \in bad : \A j \in bad : i <= j) - 1
  IN [error |-> IF ~icsData.wellformed THEN "parse"
                ELSE IF bad # {} THEN "map" ELSE "none",
      events |-> [i \in 1..n |-> NormalizeEvent(vevents[i], prefix)]]

\* ICAL.parse and the map over the vevents: the whole batch, or a throw of
\* the parser ("parse") or of the mapping function ("map")
MapEvents(icsData, prefix) ==
  LET vevents == icsData.vevents
      error == IF ~icsData.wellformed THEN "parse"
               ELSE IF \E i \in 1..Len(vevents) : NormalizeThrows(vevents[i])
                    THEN "map" ELSE "none"
  IN [error |-> error,
      events |-> IF error = "none"
                 THEN [i \in 1..Len(vevents) |-> NormalizeEvent(vevents[i], prefix)]
                 ELSE <<>>]

Key(e) == <<e.title, e.start, e.end>>

\* ------------------------------------------------------------ the table
\* SELECT * FROM events WHERE title = ? AND start = ? AND end = ?
SelectByKey(k) == {i \in 1..Len(db) : Key(db[i]) = k}

\* The same as InsertRow, as INSERT OR REPLACE on the identity key would do.
InsertRowReplacing(e) ==
  Append(SelectSeq(db, LAMBDA row : Key(row) # Key(e)),
         [id |-> Len(db) + 1, title |-> e.title, start |-> e.start,
          end |-> e.end, color |-> e.color,
          description |-> e.description, location |-> e.location])

\* INSERT INTO events (title, start, end, color, description, location)
InsertRow(e) ==
  Append(db, [id |-> Len(db) + 1, title |-> e.title, start |-> e.start,
              end |-> e.end, color |-> e.color,
              description |-> e.description, location |-> e.location])

\* The same as UpdateRows, refreshing every field the feed gives.
UpdateRowsAllFields(e) ==
  [i \in 1..Len(db) |->
     IF Key(db[i]) = Key(e)
     THEN [db[i] EXCEPT !.color = e.color, !.description = e.description,
                        !.location = e.location]
     ELSE db[i]]

\* UPDATE events SET color = ? WHERE title = ? AND start = ? AND end = ?
UpdateRows(e) ==
  [i \in 1..Len(db) |->
     IF Key(db[i]) = Key(e) THEN [db[i] EXCEPT !.color = e.color] ELSE db[i]]

\* ---------------------------------------------------------- fetchWithRetries
retries == 3

\* The same as MayRetry, with the comparison off by one.
MayRetryOnLast(attempt) == attempt <= retries

\* after a failed attempt: wait and try again, or throw
MayRetry(attempt) == attempt < retries

\* ------------------------------------------------------- fetchAndStoreEvents
\* The call runs synchronously up to its first await: attempt 1 is under way.
\* fails, delays and got record what fetchWithRetries did: the attempts that
\* failed, the delays it waited, the attempt whose response it returned.
\* ops[i] is where event i stands: "get" (its db.get is queued), "insert" or
\* "update" (its callback queued that statement), "inserted" or "updated"
\* (the statement has run), "failed" (the lookup failed).  stmtInsert and
\* stmtUpdate hold the events whose run is queued on the prepared statement,
\* which runs them in the order of the calls.
NewPass(prefix, cycle) ==
  [prefix |-> prefix, cycle |-> cycle, pc |-> "fetch", attempt |-> 1,
   fails |-> 0, delays |-> 0, got |-> 0, error |-> "none",
   events |-> <<>>, ops |-> <<>>, stmtInsert |-> <<>>, stmtUpdate |-> <<>>,
   pendingOperations |-> 0, finalized |-> FALSE, promise |-> "pending",
   after |-> {}]

\* every statement of the pass has run and every callback has returned
Complete(pass) ==
  \/ pass.pc = "aborted"
  \/ /\ pass.pc = "issued"
     /\ \A i \in 1..Len(pass.ops) : pass.ops[i] \in {"inserted", "updated", "failed"}

\* every lookup of the pass was answered and the write it led to has run
Reconciled(pass) ==
  /\ pass.pc = "issued"
  /\ \A i \in 1..Len(pass.ops) : pass.ops[i] \in {"inserted", "updated"}

\* The same as SettleAs, without the catch: a throw rejects the promise.
SettleAsUncaught(threw) == IF threw THEN "rejected" ELSE "resolved"

\* the try/catch around the body: a throw is logged and the promise resolves
SettleAs(threw) == "resolved"

\* What follows the settling of pass p's promise, ps being the passes after
\* it: the startup task, if it awaits p, goes on (a rejection escapes it).
AfterSettle(ps, p) ==
  IF startup.pc \in {"awaitSonarr", "awaitRadarr"} /\ startup.awaiting = p
  THEN IF ps[p].promise = "rejected"
       THEN /\ passes' = ps
            /\ startup' = [startup EXCEPT !.pc = "rejected"]
            /\ crashed' = TRUE
       ELSE IF startup.pc = "awaitSonarr"
       THEN /\ passes' = Append(ps, NewPass("Radarr", 0))
            /\ startup' = [pc |-> "awaitRadarr", awaiting |-> Len(ps) + 1]
            /\ UNCHANGED crashed
       ELSE /\ passes' = ps
            /\ startup' = [startup EXCEPT !.pc = "done"]
            /\ UNCHANGED crashed
  ELSE /\ passes' = ps
       /\ crashed' = (crashed \/ ps[p].promise = "rejected")
       /\ UNCHANGED startup

\* axios.get rejects (transport error or non-2xx answer)
AttemptFails(p) ==
  /\ ~crashed
  /\ p \in 1..Len(passes)
  /\ passes[p].pc = "fetch"
  /\ budget.failures > 0
  /\ budget' = [budget EXCEPT !.failures = @ - 1]
  /\ LET pass == passes[p]
         logged == [pass EXCEPT !.fails = @ + 1]
     IN IF MayRetry(pass.attempt)
        THEN /\ passes' = [passes EXCEPT ![p] = [logged EXCEPT !.pc = "delay"]]
             /\ UNCHANGED <<startup, crashed>>
        ELSE AfterSettle(
               [passes EXCEPT ![p] = [logged EXCEPT !.pc = "aborted",
                                                     !.error = "fetch",
                                                     !.promise = SettleAs(TRUE)]],
               p)
  /\ UNCHANGED <<db, latest, cache, requests, window>>

\* the setTimeout of the delay fires; the loop goes to the next attempt
DelayElapses(p) ==
  /\ ~crashed
  /\ p \in 1..Len(passes)
  /\ passes[p].pc = "delay"
  /\ passes' = [passes EXCEPT ![p].pc = "fetch",
                              ![p].attempt = @ + 1,
                              ![p].delays = @ + 1]
  /\ UNCHANGED <<db, startup, latest, cache, requests, window, crashed, budget>>

KeysOf(events) == {Key(events[i]) : i \in 1..Len(events)}

ColorsOf(events, k) ==
  {events[i].color : i \in {j \in 1..Len(events) : Key(events[j]) = k}}

\* axios.get resolves with icsData: fetchWithRetries returns it, and the body
\* of fetchAndStoreEvents runs to its end: parse, map, prepare, one db.get
\* per event, and the finalize of an empty batch.
AttemptSucceeds(p, icsData) ==
  /\ ~crashed
  /\ p \in 1..Len(passes)
  /\ passes[p].pc = "fetch"
  /\ LET pass == passes[p]
         n == MapEvents(icsData, pass.prefix)
         twins == {q \in 1..Len(passes) :
                     /\ q # p
                     /\ passes[q].prefix = pass.prefix
                     /\ passes[q].events = n.events
                     /\ Reconciled(passes[q])}
     IN /\ budget.events >= Len(n.events)
        /\ budget' = [budget EXCEPT !.events = @ - Len(n.events)]
        /\ latest' = [k \in KeysOf(n.events) |-> ColorsOf(n.events, k)] @@ latest
        /\ AfterSettle(
             [passes EXCEPT ![p] =
                [pass EXCEPT !.got = pass.attempt,
                             !.pc = IF n.error = "none" THEN "issued" ELSE "aborted",
                             !.error = n.error,
                             !.events = n.events,
                             !.ops = [i \in 1..Len(n.events) |-> "get"],
                             !.pendingOperations = Len(n.events),
                             !.finalized = (n.error = "none" /\ Len(n.events) = 0),
                             !.promise = SettleAs(n.error # "none"),
                             !.after = twins]],
             p)
  /\ UNCHANGED <<db, cache, requests, window>>

\* the statement the callback of db.get queues for what the lookup gave
WriteFor(err, row) ==
  IF err THEN "failed" ELSE IF row THEN "update" ELSE "insert"

\* sqlite3 runs the SELECT of event i's db.get and calls back with err or
\* with the row it found
GetCallback(p, i, err) ==
  /\ ~crashed
  /\ p \in 1..Len(passes)
  /\ i \in 1..Len(passes[p].ops)
  /\ passes[p].ops[i] = "get"
  /\ IF err
     THEN /\ budget.dberrors > 0
          /\ budget' = [budget EXCEPT !.dberrors = @ - 1]
     ELSE UNCHANGED budget
  /\ LET w == WriteFor(err, SelectByKey(Key(passes[p].events[i])) # {})
     IN passes' = [passes EXCEPT
          ![p].ops[i] = w,
          ![p].stmtInsert = IF w = "insert" THEN Append(@, i) ELSE @,
          ![p].stmtUpdate = IF w = "update" THEN Append(@, i) ELSE @,
          ![p].pendingOperations = @ - 1,
          ![p].finalized = (passes[p].pendingOperations = 1)]
  /\ UNCHANGED <<db, startup, latest, cache, requests, window, crashed>>

\* sqlite3 runs the next run that is queued on stmtInsert
InsertExecutes(p) ==
  /\ ~crashed
  /\ p \in 1..Len(passes)
  /\ passes[p].stmtInsert # <<>>
  /\ LET i == Head(passes[p].stmtInsert)
     IN /\ db' = InsertRow(passes[p].events[i])
        /\ passes' = [passes EXCEPT ![p].ops[i] = "inserted",
                                    ![p].stmtInsert = Tail(@)]
  /\ UNCHANGED <<startup, latest, cache, requests, window, crashed, budget>>

\* sqlite3 runs the next run that is queued on stmtUpdate
UpdateExecutes(p) ==
  /\ ~crashed
  /\ p \in 1..Len(passes)
  /\ passes[p].stmtUpdate # <<>>
  /\ LET i == Head(passes[p].stmtUpdate)
     IN /\ db' = UpdateRows(passes[p].events[i])
        /\ passes' = [passes EXCEPT ![p].ops[i] = "updated",
                                    ![p].stmtUpdate = Tail(@)]
  /\ UNCHANGED <<startup, latest, cache, requests, window, crashed, budget>>

\* sqlite3 fails the next run that is queued on stmtInsert or stmtUpdate.
\* The run was given no callback, so the error is emitted as an 'error'
\* event on the statement, which has no listener: it is thrown and nothing
\* catches it.
RunFails(p, stmt) ==
  /\ ~crashed
  /\ p \in 1..Len(passes)
  /\ budget.dberrors > 0
  /\ budget' = [budget EXCEPT !.dberrors = @ - 1]
  /\ LET queue == IF stmt = "insert" THEN passes[p].stmtInsert
                  ELSE passes[p].stmtUpdate
     IN /\ queue # <<>>
        /\ passes' = [passes EXCEPT
             ![p].ops[Head(queue)] = "failed",
             ![p].stmtInsert = IF stmt = "insert" THEN Tail(@) ELSE @,
             ![p].stmtUpdate = IF stmt = "update" THEN Tail(@) ELSE @]
  /\ crashed' = TRUE
  /\ UNCHANGED <<db, startup, latest, cache, requests, window>>

\* ------------------------------------------------------------ the crawler
\* The same as IntervalFires, leaving out a source that has a pass in flight.
IntervalFiresGuarded ==
  /\ ~crashed
  /\ budget.ticks > 0
  /\ budget' = [budget EXCEPT !.ticks = @ - 1]
  /\ LET cycle == 1 + Cardinality({q \in 1..Len(passes) :
                        passes[q].cycle > 0 /\ passes[q].prefix = "Sonarr"})
         busy(prefix) == \E q \in 1..Len(passes) :
                           /\ passes[q].prefix = prefix
                           /\ passes[q].promise = "pending"
     IN passes' = passes
          \o (IF busy("Sonarr") THEN <<>> ELSE <<NewPass("Sonarr", cycle)>>)
          \o (IF busy("Radarr") THEN <<>> ELSE <<NewPass("Radarr", cycle)>>)
  /\ UNCHANGED <<db, startup, latest, cache, requests, window, crashed>>

\* setInterval: a pass for each source, whatever the earlier ones are doing
IntervalFires ==
  /\ ~crashed
  /\ budget.ticks > 0
  /\ budget' = [budget EXCEPT !.ticks = @ - 1]
  /\ LET cycle == 1 + Cardinality({q \in 1..Len(passes) :
                        passes[q].cycle > 0 /\ passes[q].prefix = "Sonarr"})
     IN passes' = passes \o <<NewPass("Sonarr", cycle), NewPass("Radarr", cycle)>>
  /\ UNCHANGED <<db, startup, latest, cache, requests, window, crashed>>

\* --------------------------------------------------------- GET /events.json
\* The same as MissingParams, testing start alone.
MissingStart(start, end) == start = NoValue \/ start = Some(<<>>)

\* !start || !end: a parameter that is left out, or given empty
MissingParams(start, end) ==
  start = NoValue \/ start = Some(<<>>) \/ end = NoValue \/ end = Some(<<>>)

\* what a template literal makes of a query parameter
TemplateText(v) == IF v = NoValue THEN <<"undefined">> ELSE v[1]

\* `${start}_${end}`
cacheKey(start, end) == TemplateText(start) \o <<"_">> \o TemplateText(end)

\* cache.get: the value of an entry that has not run out of TTL
CacheHit(k) == k \in DOMAIN cache /\ ~cache[k].expired

\* cache.get drops an entry it finds expired
CacheAfterGet(k) ==
  IF k \in DOMAIN cache /\ cache[k].expired
  THEN [x \in DOMAIN cache \ {k} |-> cache[x]]
  ELSE cache

\* The same as SelectRange, with the comparison of end turned round.
SelectRangeEndAfter(start, end) ==
  IF start = NoValue \/ end = NoValue THEN <<>>
  ELSE SelectSeq(db, LAMBDA row : StrLeq(start[1], row.start)
                                    /\ StrLeq(end[1], row.end))

\* SELECT * FROM events WHERE start >= ? AND end <= ? (a parameter that is
\* undefined is bound as NULL, and no row compares to NULL)
SelectRange(start, end) ==
  IF start = NoValue \/ end = NoValue THEN <<>>
  ELSE SelectSeq(db, LAMBDA row : StrLeq(start[1], row.start)
                                    /\ StrLeq(row.end, end[1]))

RequiredError == "Start and end query parameters are required"
FailedError == "Failed to fetch events"

NewRequest(start, end) ==
  [start |-> start, end |-> end, pc |-> "scan", status |-> 0, error |-> "",
   body |-> <<>>, rows |-> <<>>, hit |-> FALSE, gets |-> 0, sets |-> 0,
   scans |-> 0, window |-> 0,
   retrying |-> \E p \in 1..Len(passes) :
                  passes[p].fails > 0 /\ passes[p].pc \in {"fetch", "delay"}]

\* the handler of the route, up to its return or to the db.all it queues
HandleRequest(start, end) ==
  /\ ~crashed
  /\ budget.requests > 0
  /\ budget' = [budget EXCEPT !.requests = @ - 1]
  /\ IF MissingParams(start, end)
     THEN /\ requests' = Append(requests,
               [NewRequest(start, end) EXCEPT !.pc = "done", !.status = 400,
                                              !.error = RequiredError])
          /\ UNCHANGED cache
     ELSE LET k == cacheKey(start, end)
              r == [NewRequest(start, end) EXCEPT
                      !.gets = 1,
                      !.window = IF k \in DOMAIN window THEN window[k] ELSE 0]
          IN /\ cache' = CacheAfterGet(k)
             /\ requests' = Append(requests,
                  IF CacheHit(k)
                  THEN [r EXCEPT !.pc = "done", !.status = 200, !.hit = TRUE,
                                 !.body = cache[k].v]
                  ELSE [r EXCEPT !.scans = 1])
  /\ UNCHANGED <<db, passes, startup, latest, window, crashed>>

\* sqlite3 runs the SELECT of request r's db.all, or fails it
ScanExecutes(r, err) ==
  /\ ~crashed
  /\ r \in 1..Len(requests)
  /\ requests[r].pc = "scan"
  /\ IF err
     THEN /\ budget.dberrors > 0
          /\ budget' = [budget EXCEPT !.dberrors = @ - 1]
          /\ requests' = [requests EXCEPT ![r].pc = "err"]
     ELSE /\ requests' = [requests EXCEPT
               ![r].pc = "rows",
               ![r].rows = SelectRange(requests[r].start, requests[r].end)]
          /\ UNCHANGED budget
  /\ UNCHANGED <<db, passes, startup, latest, cache, window, crashed>>

\* The same as AllCallback, remembering a failed scan as an empty result.
AllCallbackCachingError(r) ==
  /\ ~crashed
  /\ r \in 1..Len(requests)
  /\ requests[r].pc \in {"rows", "err"}
  /\ LET k == cacheKey(requests[r].start, requests[r].end)
         rows == IF requests[r].pc = "err" THEN <<>> ELSE requests[r].rows
     IN /\ cache' = (k :> [v |-> rows, expired |-> FALSE]) @@ cache
        /\ requests' = IF requests[r].pc = "err"
             THEN [requests EXCEPT ![r].pc = "done", ![r].status = 500,
                                   ![r].error = FailedError]
             ELSE [requests EXCEPT ![r].pc = "done", ![r].status = 200,
                                   ![r].body = rows, ![r].sets = 1]
  /\ UNCHANGED <<db, passes, startup, latest, window, crashed, budget>>

\* the callback of request r's db.all
AllCallback(r) ==
  /\ ~crashed
  /\ r \in 1..Len(requests)
  /\ requests[r].pc \in {"rows", "err"}
  /\ IF requests[r].pc = "err"
     THEN /\ requests' = [requests EXCEPT ![r].pc = "done", ![r].status = 500,
                                          ![r].error = FailedError]
          /\ UNCHANGED cache
     ELSE LET k == cacheKey(requests[r].start, requests[r].end)
          IN /\ cache' = (k :> [v |-> requests[r].rows, expired |-> FALSE]) @@ cache
             /\ requests' = [requests EXCEPT ![r].pc = "done", ![r].status = 200,
                                             ![r].body = requests[r].rows,
                                             ![r].sets = 1]
  /\ UNCHANGED <<db, passes, startup, latest, window, crashed, budget>>

\* stdTTL seconds have passed since the entry of key k was set
TtlElapses(k) ==
  /\ ~crashed
  /\ CacheHit(k)
  /\ budget.expiries > 0
  /\ budget' = [budget EXCEPT !.expiries = @ - 1]
  /\ cache' = [cache EXCEPT ![k].expired = TRUE]
  /\ window' = (k :> (IF k \in DOMAIN window THEN window[k] + 1 ELSE 1)) @@ window
  /\ UNCHANGED <<db, passes, startup, latest, requests, crashed>>

\* ------------------------------------------------------------------ system
\* The state after the script has run: the table as created, the cache
\* empty, the startup task waiting for its first pass.
Started ==
  /\ db = <<>>
  /\ passes = <<NewPass("Sonarr", 0)>>
  /\ startup = [pc |-> "awaitSonarr", awaiting |-> 1]
  /\ latest = <<>>
  /\ cache = <<>>
  /\ requests = <<>>
  /\ window = <<>>
  /\ crashed = FALSE

MaxPasses == 2 + 2 * MaxTicks
\* the longest batch
MaxOps == 2

Passes == 1..MaxPasses
Ops == 1..MaxOps
Requests == 1..MaxRequests

\* ---- ingestion: the passes of the startup and of the crawler, the
\* upstreams answering every attempt
IngestFeeds(prefix) ==
  IF prefix = "Sonarr"
  THEN {Malformed} \cup CalendarsOver({TentativeA, ConfirmedA, NoStartB})
  ELSE {Calendar(<<>>), Calendar(<<PlainB>>)}

NextIngest ==
  \/ IntervalFires
  \/ \E p \in Passes : p <= Len(passes) /\
       \E icsData \in IngestFeeds(passes[p].prefix) : AttemptSucceeds(p, icsData)
  \/ \E p \in Passes, i \in Ops : GetCallback(p, i, FALSE)
  \/ \E p \in Passes : InsertExecutes(p)
  \/ \E p \in Passes : UpdateExecutes(p)

InitIngest ==
  /\ Started
  /\ budget = [ticks |-> MaxTicks, failures |-> 0, events |-> MaxIngested,
               dberrors |-> 0, requests |-> 0, expiries |-> 0]

SpecIngest == InitIngest /\ [][NextIngest]_vars

\* ---- outage: upstreams that fail, storage that fails, and a query meanwhile
OutageFeeds == {Calendar(<<>>), Calendar(<<PlainB>>)}

NextOutage ==
  \/ IntervalFires
  \/ \E p \in Passes : AttemptFails(p)
  \/ \E p \in Passes : DelayElapses(p)
  \/ \E p \in Passes, icsData \in OutageFeeds : AttemptSucceeds(p, icsData)
  \/ \E p \in Passes, i \in Ops, err \in BOOLEAN : GetCallback(p, i, err)
  \/ \E p \in Passes : InsertExecutes(p)
  \/ \E p \in Passes : UpdateExecutes(p)
  \/ HandleRequest(Some(<<"0", "9">>), Some(<<"1", "0">>))
  \/ \E r \in Requests : ScanExecutes(r, FALSE)
  \/ \E r \in Requests : AllCallback(r)

InitOutage ==
  /\ Started
  /\ budget = [ticks |-> MaxTicks, failures |-> MaxFailures, events |-> MaxOps,
               dberrors |-> MaxDbErrors, requests |-> 1, expiries |-> 0]

SpecOutage == InitOutage /\ [][NextOutage]_vars

\* ---- fetching: the attempts, the delays and the returns of fetchWithRetries
\* in the passes of the startup and of the crawler
NextFetch ==
  \/ IntervalFires
  \/ \E p \in Passes : AttemptFails(p)
  \/ \E p \in Passes : DelayElapses(p)
  \/ \E p \in Passes, icsData \in OutageFeeds : AttemptSucceeds(p, icsData)

InitFetch ==
  /\ Started
  /\ budget = [ticks |-> MaxTicks, failures |-> 2 * MaxFailures,
               events |-> MaxOps, dberrors |-> 0, requests |-> 0,
               expiries |-> 0]

\* an attempt of axios.get settles, and a timer that was set fires
FairFetch ==
  \A p \in Passes :
    /\ WF_vars(AttemptFails(p) \/ \E icsData \in OutageFeeds : AttemptSucceeds(p, icsData))
    /\ WF_vars(DelayElapses(p))

SpecFetch == InitFetch /\ [][NextFetch]_vars /\ FairFetch

\* ---- queries: the requests against the passes of the startup and of the
\* crawler
QueryFeeds(prefix) ==
  IF prefix = "Sonarr"
  THEN {Calendar(<<TentativeA>>), Calendar(<<ConfirmedA>>)}
  ELSE {Calendar(<<PlainB>>)}

QueryValues == {NoValue, Some(<<>>), Some(<<"0", "9">>), Some(<<"1", "0">>)}

CacheKeys == {cacheKey(s, e) : s, e \in QueryValues}

NextQuery ==
  \/ IntervalFires
  \/ \E p \in Passes : p <= Len(passes) /\
       \E icsData \in QueryFeeds(passes[p].prefix) : AttemptSucceeds(p, icsData)
  \/ \E p \in Passes, i \in Ops : GetCallback(p, i, FALSE)
  \/ \E p \in Passes : InsertExecutes(p)
  \/ \E p \in Passes : UpdateExecutes(p)
  \/ \E start, end \in QueryValues : HandleRequest(start, end)
  \/ \E r \in Requests, err \in BOOLEAN : ScanExecutes(r, err)
  \/ \E r \in Requests : AllCallback(r)
  \/ \E k \in CacheKeys : TtlElapses(k)

InitQuery ==
  /\ Started
  /\ budget = [ticks |-> MaxTicks, failures |-> 0, events |-> MaxOps,
               dberrors |-> MaxDbErrors, requests |-> MaxRequests,
               expiries |-> MaxExpiries]

SpecQuery == InitQuery /\ [][NextQuery]_vars

\* ---- storage errors: lookups and writes that fail in the passes of the
\* startup and of the crawler; the two upstreams can list an entry of the
\* same summary and time
StorageFeeds(prefix) ==
  IF prefix = "Sonarr"
  THEN {Calendar(<<TentativeA>>), Calendar(<<TentativeA, ConfirmedA>>)}
  ELSE {Calendar(<<PlainB>>), Calendar(<<TentativeA>>)}

NextStorage ==
  \/ IntervalFires
  \/ \E p \in Passes : p <= Len(passes) /\
       \E icsData \in StorageFeeds(passes[p].prefix) : AttemptSucceeds(p, icsData)
  \/ \E p \in Passes, i \in Ops, err \in BOOLEAN : GetCallback(p, i, err)
  \/ \E p \in Passes : InsertExecutes(p)
  \/ \E p \in Passes : UpdateExecutes(p)
  \/ \E p \in Passes, stmt \in {"insert", "update"} : RunFails(p, stmt)

InitStorage ==
  /\ Started
  /\ budget = [ticks |-> MaxTicks, failures |-> 0, events |-> MaxIngested,
               dberrors |-> MaxDbErrors, requests |-> 0, expiries |-> 0]

SpecStorage == InitStorage /\ [][NextStorage]_vars

\* ---- cache keys: requests whose parameters hold the separator of the key
KeyValues == {Some(<<"1">>), Some(<<"1", "_">>), Some(<<"_", "1">>)}

NextKeys ==
  \/ \E p \in Passes : p <= Len(passes) /\
       \E icsData \in QueryFeeds(passes[p].prefix) : AttemptSucceeds(p, icsData)
  \/ \E p \in Passes, i \in Ops : GetCallback(p, i, FALSE)
  \/ \E p \in Passes : InsertExecutes(p)
  \/ \E start, end \in KeyValues : HandleRequest(start, end)
  \/ \E r \in Requests : ScanExecutes(r, FALSE)
  \/ \E r \in Requests : AllCallback(r)

InitKeys ==
  /\ Started
  /\ budget = [ticks |-> 0, failures |-> 0, events |-> MaxOps,
               dberrors |-> 0, requests |-> MaxRequests, expiries |-> 0]

SpecKeys == InitKeys /\ [][NextKeys]_vars

\* ------------------------------------------- the variant without the table
\* index.js keeps no table and runs no crawler: each of /sonarr.json and
\* /radarr.json fetches the feed of its source through fetchWithCache and
\* converts it.  Of the variables it has the cache and the requests; a
\* request holds the document it got and what it answered.
\* calls of the two routes
MaxCalls == 3

\* the body of an upstream's answer: the text of a calendar, or nothing
Document(source, calendar) ==
  [from |-> source, empty |-> FALSE,
   wellformed |-> calendar.wellformed, vevents |-> calendar.vevents]

EmptyBody(source) ==
  [from |-> source, empty |-> TRUE, wellformed |-> FALSE, vevents |-> <<>>]

NoDocument == [from |-> "", empty |-> TRUE, wellformed |-> FALSE, vevents |-> <<>>]

\* what the upstream of a source answers with
VariantFeeds(source) ==
  IF source = "Sonarr"
  THEN {EmptyBody("Sonarr"), Document("Sonarr", Calendar(<<TentativeA>>)),
        Document("Sonarr", Malformed)}
  ELSE {Document("Radarr", Calendar(<<PlainB>>))}

\* the key each route passes to fetchWithCache
VariantKey(source) == IF source = "Sonarr" THEN "sonarr_json" ELSE "radarr_json"

\* if (cachedData): an entry is used if its value is truthy, and the empty
\* string is not
CachedData(k) == CacheHit(k) /\ ~cache[k].v.empty

ConvertError == "Failed to convert ICS to JSON"

\* the rest of the route once it has the document: parse, map, res.json, or
\* the catch with its 500
Converted(request, doc) ==
  LET n == MapEvents(doc, request.source)
  IN [request EXCEPT !.pc = "done", !.doc = doc,
                     !.status = IF n.error = "none" THEN 200 ELSE 500,
                     !.error = IF n.error = "none" THEN "" ELSE ConvertError,
                     !.body = n.events]

\* a route is called: fetchWithCache up to its return or to its axios.get
RouteCalled(source) ==
  /\ budget.requests > 0
  /\ budget' = [budget EXCEPT !.requests = @ - 1]
  /\ LET k == VariantKey(source)
         r == [source |-> source, pc |-> "fetch", status |-> 0, error |-> "",
               body |-> <<>>, doc |-> NoDocument, hit |-> FALSE, fetches |-> 0,
               live |-> CacheHit(k)]
     IN /\ cache' = CacheAfterGet(k)
        /\ requests' = Append(requests,
             IF CachedData(k)
             THEN Converted([r EXCEPT !.hit = TRUE], cache[k].v)
             ELSE [r EXCEPT !.fetches = 1])
  /\ UNCHANGED <<db, passes, startup, latest, window, crashed>>

\* axios.get of request r resolves: cache.set and the rest of the route
FetchResolves(r, doc) ==
  /\ r \in 1..Len(requests)
  /\ requests[r].pc = "fetch"
  /\ cache' = (VariantKey(requests[r].source) :> [v |-> doc, expired |-> FALSE]) @@ cache
  /\ requests' = [requests EXCEPT ![r] = Converted(requests[r], doc)]
  /\ UNCHANGED <<db, passes, startup, latest, window, crashed, budget>>

\* axios.get of request r rejects: the throw reaches the catch of the route
FetchRejects(r) ==
  /\ r \in 1..Len(requests)
  /\ requests[r].pc = "fetch"
  /\ budget.failures > 0
  /\ budget' = [budget EXCEPT !.failures = @ - 1]
  /\ requests' = [requests EXCEPT ![r].pc = "done", ![r].status = 500,
                                  ![r].error = ConvertError]
  /\ UNCHANGED <<db, passes, startup, latest, cache, window, crashed>>

NextVariant ==
  \/ \E source \in {"Sonarr", "Radarr"} : RouteCalled(source)
  \/ \E r \in 1..MaxCalls : r <= Len(requests) /\
       \E doc \in VariantFeeds(requests[r].source) : FetchResolves(r, doc)
  \/ \E r \in 1..MaxCalls : FetchRejects(r)
  \/ \E source \in {"Sonarr", "Radarr"} : TtlElapses(VariantKey(source))

InitVariant ==
  /\ db = <<>>
  /\ passes = <<>>
  /\ startup = [pc |-> "done", awaiting |-> 0]
  /\ latest = <<>>
  /\ cache = <<>>
  /\ requests = <<>>
  /\ window = <<>>
  /\ crashed = FALSE
  /\ budget = [ticks |-> 0, failures |-> MaxFailures, events |-> 0,
               dberrors |-> 0, requests |-> MaxCalls, expiries |-> MaxExpiries]

SpecVariant == InitVariant /\ [][NextVariant]_vars

\* ------------------------------------------------------------------ claims
PassIds == 1..Len(passes)
OpIds(p) == 1..Len(passes[p].ops)

\* every pass that was started has come to its end
AllResolved == \A p \in PassIds : Complete(passes[p])

\* C1: in every reachable state the table holds at most one row per identity
\* key (title, start, end), whatever the passes and however they interleave.
C1_OneRowPerKey ==
  \A i, j \in 1..Len(db) : Key(db[i]) = Key(db[j]) => i = j

\* C2: a pass that reconciles a batch which an earlier pass of the source has
\* reconciled to the end (every lookup answered, every write run) inserts no
\* row, and once it has come to its end the table holds exactly one row for
\* each identity key of the batch.
C2_Idempotent ==
  \A q \in PassIds :
    passes[q].after # {} =>
      /\ \A i \in OpIds(q) : passes[q].ops[i] \notin {"insert", "inserted"}
      /\ Complete(passes[q]) =>
           \A k \in KeysOf(passes[q].events) : Cardinality(SelectByKey(k)) = 1

\* C3: a lookup that finds the identity key of its event in the table leads
\* to no insert, and the update it leads to leaves the number of rows as it
\* is, sets the colour of the rows of that key and changes nothing else; no
\* step ever changes the id, title, start, end, description or location of a
\* row.
C3_Step ==
  /\ \A j \in 1..Len(db) :
       /\ j <= Len(db')
       /\ db'[j] = [db[j] EXCEPT !.color = db'[j].color]
  /\ \A p \in PassIds : \A i \in OpIds(p) :
       LET e == passes[p].events[i]
           found == \E j \in 1..Len(db) : Key(db[j]) = Key(e)
       IN /\ (passes[p].ops[i] = "get" /\ passes'[p].ops[i] # "get" /\ found)
               => passes'[p].ops[i] \in {"update", "failed"}
          /\ (passes[p].ops[i] = "update" /\ passes'[p].ops[i] = "updated")
               => /\ Len(db') = Len(db)
                  /\ \A j \in 1..Len(db) :
                       IF Key(db[j]) = Key(e)
                       THEN db'[j].color = e.color
                       ELSE db'[j] = db[j]

C3_UpdateOnlyColor == [][C3_Step]_vars

\* a row that was inserted red without a description and is green now, by the
\* update of an event that carries a description
C3_Witness ==
  \E j \in 1..Len(db) : \E p \in PassIds : \E i \in OpIds(p) :
    /\ passes[p].ops[i] = "updated"
    /\ Key(passes[p].events[i]) = Key(db[j])
    /\ passes[p].events[i].description = "d"
    /\ db[j].color = "green"
    /\ db[j].description = ""

\* C4: once every started pass has come to its end, the colour of every row
\* is one the most recently fetched feed with the row's identity key derives
\* for it.
C4_ColorIsLatest ==
  AllResolved =>
    \A j \in 1..Len(db) : db[j].color \in latest[Key(db[j])]

\* C7: a pass whose document fails to parse or to normalise has queued no
\* statement at all: it holds no batch, no lookup and no write.
C7_NoPartialWrites ==
  \A p \in PassIds :
    passes[p].error \in {"parse", "map"} =>
      /\ passes[p].events = <<>>
      /\ passes[p].ops = <<>>
      /\ passes[p].pendingOperations = 0
      /\ passes[p].pc = "aborted"

\* a pass that threw in the map, with the table holding rows of other passes
C7_Witness ==
  /\ db # <<>>
  /\ \E p \in PassIds : passes[p].error = "map"
  /\ \E p \in PassIds : passes[p].error = "parse"

\* C5: fetchWithRetries makes at most 3 attempts and comes to an end; it
\* returns the response of the first attempt that succeeds and attempts
\* nothing after it; it waits one delay after each failed attempt but the
\* last; it throws exactly when 3 attempts have failed.
C5_Counts ==
  \A p \in PassIds :
    LET x == passes[p]
    IN /\ x.attempt \in 1..3
       /\ x.fails <= 3
       /\ x.pc = "fetch" =>
            x.got = 0 /\ x.fails = x.attempt - 1 /\ x.delays = x.attempt - 1
       /\ x.pc = "delay" =>
            x.got = 0 /\ x.fails = x.attempt /\ x.delays = x.attempt - 1
                      /\ x.attempt < 3
       /\ x.pc \in {"issued", "aborted"} /\ x.error # "fetch" =>
            x.got = x.attempt /\ x.fails = x.got - 1 /\ x.delays = x.got - 1
       /\ x.error = "fetch" =>
            x.got = 0 /\ x.attempt = 3 /\ x.fails = 3 /\ x.delays = 2
       /\ x.fails = 3 => x.error = "fetch" /\ x.pc = "aborted"

C5_ComesToEnd ==
  \A p \in Passes :
    (p <= Len(passes)) ~> (p <= Len(passes) /\ passes[p].pc \in {"issued", "aborted"})

C5_FetchWithRetries == []C5_Counts /\ C5_ComesToEnd

\* one pass that got the response of its third attempt after two delays, and
\* one that threw after three failures
C5_Witness ==
  /\ \E p \in PassIds : passes[p].got = 3 /\ passes[p].fails = 2
                          /\ passes[p].delays = 2 /\ passes[p].pc = "issued"
  /\ \E p \in PassIds : passes[p].error = "fetch" /\ passes[p].fails = 3

\* C6: a pass whose upstream failed on every attempt has queued no lookup and
\* no write, its promise is resolved and nothing escaped to the process, and
\* the pass of the other source of its cycle was started.
C6_FetchErrorIsolated ==
  /\ ~crashed
  /\ startup.pc # "rejected"
  /\ \A p \in PassIds :
       passes[p].error = "fetch" =>
         /\ passes[p].events = <<>>
         /\ passes[p].ops = <<>>
         /\ passes[p].stmtInsert = <<>> /\ passes[p].stmtUpdate = <<>>
         /\ passes[p].promise = "resolved"
         /\ \E q \in PassIds : /\ passes[q].cycle = passes[p].cycle
                               /\ passes[q].prefix # passes[p].prefix

\* the Sonarr pass of a cycle failed on every attempt, the Radarr pass of the
\* cycle inserted its event, and a query was answered from the table while a
\* pass was retrying
C6_Witness ==
  /\ \E p, q \in PassIds :
       /\ passes[p].error = "fetch" /\ passes[p].prefix = "Sonarr"
       /\ passes[q].cycle = passes[p].cycle /\ passes[q].prefix = "Radarr"
       /\ \E i \in OpIds(q) : passes[q].ops[i] = "inserted"
  /\ \E r \in 1..Len(requests) :
       /\ requests[r].retrying /\ requests[r].status = 200
       /\ requests[r].body # <<>>

RequestIds == 1..Len(requests)

\* C8: a request that leaves out start or end is answered with 400 and the
\* required-parameters error, and handling it queues no scan and neither
\* reads nor writes the cache.
C8_MissingParameter ==
  \A r \in RequestIds :
    (requests[r].start = NoValue \/ requests[r].end = NoValue) =>
      /\ requests[r].pc = "done"
      /\ requests[r].status = 400
      /\ requests[r].error = "Start and end query parameters are required"
      /\ requests[r].scans = 0
      /\ requests[r].gets = 0
      /\ requests[r].sets = 0

\* a request that gives start and leaves out end, answered with 400 after a
\* request whose rows the cache holds
C8_Witness ==
  \E r1, r2 \in RequestIds :
    /\ r1 < r2
    /\ requests[r1].status = 200 /\ requests[r1].sets = 1 /\ cache # <<>>
    /\ requests[r2].start # NoValue /\ requests[r2].end = NoValue
    /\ requests[r2].status = 400

\* C9: two requests with the same (start, end) that arrive within one TTL
\* window (no entry of their key ran out between them) are answered with the
\* same rows, and a request answered from the cache queued no scan.
C9_SameWithinTtl ==
  \A r1, r2 \in RequestIds :
    /\ (requests[r1].hit => requests[r1].scans = 0)
    /\ ( /\ requests[r1].start = requests[r2].start
         /\ requests[r1].end = requests[r2].end
         /\ requests[r1].window = requests[r2].window
         /\ requests[r1].status = 200
         /\ requests[r2].status = 200 )
       => requests[r1].body = requests[r2].body

\* rows holds exactly the rows of table with start >= s and end <= e
ExactlyInRange(rows, table, s, e) ==
  /\ \A i \in 1..Len(table) :
       (StrLeq(s, table[i].start) /\ StrLeq(table[i].end, e))
         <=> \E j \in 1..Len(rows) : rows[j] = table[i]
  /\ \A j \in 1..Len(rows) : \E i \in 1..Len(table) : rows[j] = table[i]
  /\ \A j, k \in 1..Len(rows) : rows[j] = rows[k] => j = k

\* C10: the scan of a request that missed the cache gives exactly the rows
\* of the table, as it is when the scan runs, with start >= rangeStart and
\* end <= rangeEnd; the callback answers with these rows and sets them in the
\* cache under the key of the request.
C10_Step ==
  \A r \in RequestIds :
    LET q == requests[r]
    IN /\ (q.pc = "scan" /\ requests'[r].pc = "rows")
            => ExactlyInRange(requests'[r].rows, db, q.start[1], q.end[1])
       /\ (q.pc = "rows" /\ requests'[r].pc = "done")
            => /\ requests'[r].status = 200
               /\ requests'[r].body = q.rows
               /\ LET k == q.start[1] \o <<"_">> \o q.end[1]
                  IN /\ k \in DOMAIN cache'
                     /\ cache'[k] = [v |-> q.rows, expired |-> FALSE]

C10_MissScansRange == [][C10_Step]_vars

\* a request that missed the cache and was answered with some rows of the
\* table but not all, which the cache holds now
C10_Witness ==
  \E r \in RequestIds :
    /\ requests[r].status = 200 /\ ~requests[r].hit
    /\ requests[r].body # <<>>
    /\ Len(requests[r].body) < Len(db)
    /\ \E k \in DOMAIN cache : cache[k].v = requests[r].body

\* ------------------------------------------------------------ claims, cont.
\* C11: a request whose scan failed is answered with 500 by a step that
\* leaves the cache as it is, it scanned once and is never touched again; a
\* request that arrives while the cache holds no live entry of its range
\* queues a scan, and one answered from the cache gets rows that an earlier
\* request read from the table and set, never a remembered failure.
C11_Step ==
  /\ \A r \in RequestIds :
       /\ (requests[r].pc = "scan" /\ requests'[r].pc = "err") => cache' = cache
       /\ (requests[r].pc = "err" /\ requests'[r] # requests[r])
            => /\ requests'[r] = [requests[r] EXCEPT
                                    !.pc = "done", !.status = 500,
                                    !.error = "Failed to fetch events"]
               /\ requests[r].scans = 1 /\ requests[r].sets = 0
               /\ cache' = cache
       /\ requests[r].status = 500 => requests'[r] = requests[r]
  /\ Len(requests') = Len(requests) + 1 =>
       LET n == requests'[Len(requests')]
           live == \E k \in DOMAIN cache :
                     /\ ~cache[k].expired
                     /\ n.start # NoValue /\ n.end # NoValue
                     /\ k = n.start[1] \o <<"_">> \o n.end[1]
       IN /\ (n.status # 400 /\ ~live) => (n.pc = "scan" /\ n.scans = 1 /\ ~n.hit)
          /\ n.hit => \E q \in RequestIds :
                        /\ requests[q].status = 200 /\ requests[q].sets = 1
                        /\ requests[q].body = n.body

C11_ScanErrorNotCached == [][C11_Step]_vars

\* a request answered with 500, and a later one of the same range that
\* scanned the table and was answered with its rows
C11_Witness ==
  \E r1, r2 \in RequestIds :
    /\ r1 < r2
    /\ requests[r1].start = requests[r2].start
    /\ requests[r1].end = requests[r2].end
    /\ requests[r1].status = 500
    /\ requests[r2].status = 200 /\ ~requests[r2].hit /\ requests[r2].scans = 1
    /\ requests[r2].body # <<>>

\* what a row or an event holds besides the id
Content(e) ==
  [title |-> e.title, start |-> e.start, end |-> e.end, color |-> e.color,
   description |-> e.description, location |-> e.location]

\* the records after reconciling events, one after the other, each to its
\* end, against the records S
RECURSIVE SerialBatch(_, _)
SerialBatch(S, events) ==
  IF events = <<>> THEN S
  ELSE LET e == Head(events)
           hit == {c \in S : Key(c) = Key(e)}
       IN SerialBatch(IF hit = {} THEN S \cup {Content(e)}
                      ELSE (S \ hit) \cup {[c EXCEPT !.color = e.color] : c \in hit},
                      Tail(events))

DistinctKeys(events) ==
  \A i, j \in 1..Len(events) : Key(events[i]) = Key(events[j]) => i = j

\* the rows that carry the tag of a source
RowsOf(prefix) == {j \in 1..Len(db) : db[j].title[2] = prefix}

\* C12: when the two passes of a source (batches without a repeated key) have
\* come to their end, however their lookups and writes interleaved, the rows
\* of the source are those that running the one pass to its end and then the
\* other leaves, in one of the two orders.
C12_OverlapIsSerial ==
  \A p, q \in PassIds :
    ( /\ p < q
      /\ passes[p].prefix = passes[q].prefix
      /\ Complete(passes[p]) /\ Complete(passes[q])
      /\ DistinctKeys(passes[p].events) /\ DistinctKeys(passes[q].events)
      /\ \A o \in PassIds \ {p, q} :
           passes[o].prefix = passes[p].prefix => passes[o].pc \in {"fetch", "delay"} )
    => LET rows == RowsOf(passes[p].prefix)
           actual == {Content(db[j]) : j \in rows}
       IN /\ Cardinality(rows) = Cardinality(actual)
          /\ actual \in {SerialBatch(SerialBatch({}, passes[p].events), passes[q].events),
                         SerialBatch(SerialBatch({}, passes[q].events), passes[p].events)}

\* C13: the promise of a pass is resolved only when every lookup of its
\* batch has been answered and the write it led to has run; the startup task
\* goes on to its second pass only then.
C13_ResolvedWhenComplete ==
  /\ \A p \in PassIds :
       passes[p].promise = "resolved" => Complete(passes[p])
  /\ startup.pc \in {"awaitRadarr", "done"} => Complete(passes[1])

\* C14: a lookup or a write that fails for one event takes nothing else
\* down: no error escapes to the process, the event whose lookup failed has
\* no write queued, the pending count is the number of lookups not answered
\* yet, and the statements are finalized exactly when it is zero, so that
\* the other events go on to their lookups and writes.
C14_RecordErrorTolerated ==
  /\ ~crashed
  /\ \A p \in PassIds :
       passes[p].pc = "issued" =>
         /\ passes[p].pendingOperations =
              Cardinality({i \in OpIds(p) : passes[p].ops[i] = "get"})
         /\ passes[p].finalized <=> passes[p].pendingOperations = 0
         /\ \A i \in OpIds(p) :
              passes[p].ops[i] = "failed" =>
                /\ \A n \in 1..Len(passes[p].stmtInsert) : passes[p].stmtInsert[n] # i
                /\ \A n \in 1..Len(passes[p].stmtUpdate) : passes[p].stmtUpdate[n] # i

\* C15: a request is answered from the cache only with rows that an earlier
\* request with the same (start, end) read from the table and set.
C15_KeyIsPair ==
  \A r \in RequestIds :
    requests[r].hit =>
      \E q \in 1..(r - 1) :
        /\ requests[q].start = requests[r].start
        /\ requests[q].end = requests[r].end
        /\ requests[q].sets = 1
        /\ requests[q].body = requests[r].body

\* C16: an entry of the cache that has not run out of TTL stays as it is: no
\* write of a pass and no other step removes it or changes the rows it holds,
\* and a request of its range is answered with these rows without a scan; a
\* request that finds the entry of its range expired drops it and queues a
\* scan.
C16_Step ==
  /\ \A k \in DOMAIN cache :
       ~cache[k].expired =>
         /\ k \in DOMAIN cache'
         /\ cache'[k].v = cache[k].v
  /\ (db' # db \/ passes' # passes) => cache' = cache
  /\ Len(requests') = Len(requests) + 1 =>
       LET n == requests'[Len(requests')]
           k == TemplateText(n.start) \o <<"_">> \o TemplateText(n.end)
       IN n.status # 400 =>
            IF k \in DOMAIN cache /\ ~cache[k].expired
            THEN n.hit /\ n.status = 200 /\ n.body = cache[k].v /\ n.scans = 0
            ELSE n.pc = "scan" /\ n.scans = 1 /\ k \notin DOMAIN cache'

C16_ExpiresOnlyByTtl == [][C16_Step]_vars

\* the passes of a source that a trigger started (0: the startup)
StartedBy(prefix, cycle) ==
  {p \in PassIds : passes[p].prefix = prefix /\ passes[p].cycle = cycle}

\* C17: the startup starts one Sonarr pass, and one Radarr pass in the step
\* in which the promise of the Sonarr pass settles, whether it fetched or
\* failed; every tick of the interval appends a new pass for Sonarr and one
\* for Radarr and leaves the passes that exist as they are, in flight or not;
\* no pass is ever taken away.
C17_State ==
  /\ Len(passes) >= 1 /\ passes[1].prefix = "Sonarr" /\ passes[1].cycle = 0
  /\ Cardinality(StartedBy("Sonarr", 0)) = 1
  /\ Cardinality(StartedBy("Radarr", 0)) =
       IF passes[1].promise = "pending" THEN 0 ELSE 1
  /\ \A p \in PassIds :
       passes[p].cycle > 0 =>
         /\ Cardinality(StartedBy("Sonarr", passes[p].cycle)) = 1
         /\ Cardinality(StartedBy("Radarr", passes[p].cycle)) = 1

C17_Step ==
  /\ \A p \in PassIds :
       /\ p <= Len(passes')
       /\ passes'[p].prefix = passes[p].prefix
       /\ passes'[p].cycle = passes[p].cycle
  /\ budget'.ticks # budget.ticks =>
       /\ budget'.ticks = budget.ticks - 1
       /\ Len(passes') = Len(passes) + 2
       /\ \A p \in PassIds : passes'[p] = passes[p]
       /\ LET s == passes'[Len(passes) + 1]
              r == passes'[Len(passes) + 2]
          IN /\ s.prefix = "Sonarr" /\ r.prefix = "Radarr"
             /\ s.cycle = r.cycle /\ s.cycle > 0
             /\ s.pc = "fetch" /\ r.pc = "fetch"
             /\ s.attempt = 1 /\ r.attempt = 1
  /\ (passes[1].promise = "pending" /\ passes'[1].promise # "pending") =>
       /\ Len(passes') = Len(passes) + 1
       /\ LET r == passes'[Len(passes')]
          IN r.prefix = "Radarr" /\ r.cycle = 0 /\ r.pc = "fetch" /\ r.attempt = 1

C17_Scheduler == []C17_State /\ [][C17_Step]_vars

\* the interval fired while the Sonarr pass of the startup was in flight,
\* that pass failed in the end, and the Radarr pass of the startup, started
\* after it, fetched its feed
C17_Witness ==
  \E s, r \in PassIds :
    /\ passes[1].error = "fetch"
    /\ passes[s].prefix = "Sonarr" /\ passes[s].cycle = 1
    /\ passes[r].prefix = "Radarr" /\ passes[r].cycle = 0
    /\ s < r
    /\ passes[r].got > 0

\* C18: across every step the rows that exist stay, with their id and their
\* identity key; the table changes only by the INSERT of a pass appending
\* one row or by the UPDATE of a pass setting colours, and never in a step
\* that handles a request or touches the cache.
C18_Step ==
  /\ Len(db') >= Len(db)
  /\ \A j \in 1..Len(db) :
       db'[j].id = db[j].id /\ Key(db'[j]) = Key(db[j])
  /\ (requests' # requests \/ cache' # cache \/ window' # window) => db' = db
  /\ db' # db =>
       \E p \in PassIds : \E i \in OpIds(p) :
         \/ /\ passes[p].ops[i] = "insert" /\ passes'[p].ops[i] = "inserted"
            /\ Len(db') = Len(db) + 1
            /\ SubSeq(db', 1, Len(db)) = db
            /\ Key(db'[Len(db')]) = Key(passes[p].events[i])
         \/ /\ passes[p].ops[i] = "update" /\ passes'[p].ops[i] = "updated"
            /\ Len(db') = Len(db)
            /\ \A j \in 1..Len(db) : db'[j] = [db[j] EXCEPT !.color = db'[j].color]

C18_StoreOnlyGrows == [][C18_Step]_vars

\* a row whose colour a pass has set, with one request answered from the
\* table and another one from the cache
C18_Witness ==
  /\ \E p \in PassIds : \E i \in OpIds(p) : passes[p].ops[i] = "updated"
  /\ \E r1, r2 \in RequestIds :
       /\ requests[r1].status = 200 /\ requests[r1].scans = 1
       /\ requests[r2].hit /\ requests[r2].body # <<>>

\* a title that starts with the bracketed tag of a source
Tagged(title, prefix) ==
  /\ Len(title) >= 3
  /\ title[1] = "[" /\ title[2] = prefix /\ title[3] = "] "

\* C19: every event of a pass, and so every key it looks up or writes,
\* carries the tag of the pass's source, and keys of passes of different
\* sources differ; a write of a pass changes no row with the other tag and
\* adds only a row with its own, and its lookup finds a row exactly if a
\* row with its own tag has the key; when a Sonarr pass and a Radarr pass
\* (the only ones that reached the table) have reconciled their batches, the
\* records are those of running the one and then the other, in either order.
C19_State ==
  /\ \A p \in PassIds : \A i \in 1..Len(passes[p].events) :
       Tagged(passes[p].events[i].title, passes[p].prefix)
  /\ \A j \in 1..Len(db) :
       Tagged(db[j].title, "Sonarr") \/ Tagged(db[j].title, "Radarr")
  /\ \A p, q \in PassIds :
       passes[p].prefix # passes[q].prefix =>
         KeysOf(passes[p].events) \cap KeysOf(passes[q].events) = {}
  /\ \A p, q \in PassIds :
       ( /\ passes[p].prefix = "Sonarr" /\ passes[q].prefix = "Radarr"
         /\ Reconciled(passes[p]) /\ Reconciled(passes[q])
         /\ DistinctKeys(passes[p].events) /\ DistinctKeys(passes[q].events)
         /\ \A o \in PassIds \ {p, q} : passes[o].pc # "issued" )
       => LET actual == {Content(db[j]) : j \in 1..Len(db)}
          IN /\ Cardinality(actual) = Len(db)
             /\ actual = SerialBatch(SerialBatch({}, passes[p].events), passes[q].events)
             /\ actual = SerialBatch(SerialBatch({}, passes[q].events), passes[p].events)

C19_Step ==
  \A p \in PassIds : \A i \in OpIds(p) :
    LET e == passes[p].events[i]
        own == {j \in 1..Len(db) : Tagged(db[j].title, passes[p].prefix)}
    IN /\ (passes[p].ops[i] = "get" /\ passes'[p].ops[i] \in {"insert", "update"})
            => (passes'[p].ops[i] = "update" <=> \E j \in own : Key(db[j]) = Key(e))
       /\ (passes[p].ops[i] \in {"insert", "update"} /\ passes'[p].ops[i] # passes[p].ops[i])
            => /\ \A j \in 1..Len(db) \ own : j <= Len(db') /\ db'[j] = db[j]
               /\ \A j \in (Len(db) + 1)..Len(db') :
                    Tagged(db'[j].title, passes[p].prefix)

C19_SourcesDisjoint == []C19_State /\ [][C19_Step]_vars

\* the Radarr pass of the startup, which starts after the Sonarr pass has
\* returned, has its row in the table before the row of the Sonarr pass
C19_Witness ==
  \E p, q \in PassIds : \E j1, j2 \in 1..Len(db) :
    /\ passes[p].prefix = "Sonarr" /\ passes[q].prefix = "Radarr"
    /\ passes[p].cycle = 0 /\ passes[q].cycle = 0
    /\ Reconciled(passes[p]) /\ Reconciled(passes[q])
    /\ \A o \in PassIds \ {p, q} : passes[o].pc # "issued"
    /\ j1 < j2
    /\ Tagged(db[j1].title, "Radarr") /\ Tagged(db[j2].title, "Sonarr")

\* C20: a call that finds an entry of its key that has not run out of TTL
\* makes no request to the upstream and goes on with the document of the
\* entry, and a call that finds none makes one; a fetch that fails leaves
\* the cache as it is and its request is answered with 500; a request only
\* ever gets a document of its own source.
C20_Step ==
  /\ Len(requests') = Len(requests) + 1 =>
       LET n == requests'[Len(requests')]
           k == IF n.source = "Sonarr" THEN "sonarr_json" ELSE "radarr_json"
       IN IF k \in DOMAIN cache /\ ~cache[k].expired
          THEN n.fetches = 0 /\ n.pc = "done" /\ n.doc = cache[k].v
          ELSE n.fetches = 1 /\ n.pc = "fetch"
  /\ \A r \in RequestIds :
       /\ (requests[r].pc = "fetch" /\ requests'[r].pc = "done"
             /\ requests'[r].doc = NoDocument)
            => /\ cache' = cache
               /\ requests'[r].status = 500
       /\ requests'[r].doc # NoDocument => requests'[r].doc.from = requests'[r].source
       /\ requests'[r].fetches <= 1

C20_FetchWithCache == [][C20_Step]_vars

====
